---- MODULE Spec2Model ----
(***************************************************************************)
(* The build-retry loop of AutomationEngine (src/scripts/init_project.py): *)
(* match_error_pattern, execute_auto_fix and build_with_validation, and    *)
(* the directories that create_basic_project makes and os.chdir enters.    *)
(*                                                                         *)
(* Text that the code inspects (regexes, captured output) is a sequence of *)
(* one-character strings; text it only passes on (commands, labels) is a   *)
(* TLA+ string.  A JSON object is a record whose DOMAIN holds exactly the  *)
(* keys that are present, so dict.get(key, default) can be modelled.       *)
(***************************************************************************)
EXTENDS Integers, Sequences, FiniteSets, TLC

VARIABLES
    current_platform,   \* platform.system()
    error_patterns,     \* self.error_patterns.get("patterns", [])
    load,               \* what __init__ met when it located and loaded its files
    returned,           \* <<v>>: the value execute_auto_fix returned last
    cwd,                \* the working directory of the process, a path
    dirs,               \* the directories that exist, by their paths
    chdir_error,        \* <<d>>: os.chdir(d) raised in the call that ended last
                        \* and no directory was made since, else <<>>
    pc,                 \* position of the controller
    attempt,            \* loop variable of `for attempt in range(...)` (0-based)
    phase,              \* which build step failed last: "configure" | "compile"
    error_output,       \* result.stderr + result.stdout of the failed step
    pattern,            \* match_error_pattern's result: <<>> is None, <<p>> is p
    stage,              \* which call of execute_auto_fix runs: "auto_fix" | "fallback"
    fixes,              \* execute_auto_fix's local auto_fixes
    fix_i,              \* index of its `for fix in auto_fixes`
    fb_i,               \* index of the controller's `for fallback in fallbacks`
    result,             \* the (success, message) tuple returned, <<>> before
    log                 \* the subprocesses launched in this call, in order

vars == <<current_platform, error_patterns, load, returned, cwd, dirs,
          chdir_error, pc, attempt, phase,
          error_output, pattern, stage, fixes, fix_i, fb_i, result, log>>

-----------------------------------------------------------------------------
(* Program constants                                                       *)

max_retry_attempts == 3

SliceLen == 300

-----------------------------------------------------------------------------
(* Bounds of the model                                                     *)

MaxPatterns == 2

-----------------------------------------------------------------------------
(* Text                                                                    *)

\* str.lower() on the alphabet of the model, as re.IGNORECASE folds case.
Lower(ch) ==
    CASE ch = "C" -> "c"
      [] ch = "X" -> "x"
      [] ch = "Z" -> "z"
      [] OTHER -> ch

\* s[:n]
Take(s, n) == SubSeq(s, 1, IF Len(s) < n THEN Len(s) ELSE n)

\* n copies of the character ch
Rep(ch, n) == [i \in 1..n |-> ch]

\* re.search(regex, text, re.IGNORECASE) for a regex without metacharacters:
\* the literal occurs somewhere in the text, case folded.  The empty regex
\* matches every text.
re_search(regex, text) ==
    \E k \in 0..(Len(text) - Len(regex)) :
        \A j \in 1..Len(regex) : Lower(text[k + j]) = Lower(regex[j])

\* dict.get(key, default)
Get(d, key, default) == IF key \in DOMAIN d THEN d[key] ELSE default

\* a or b on strings: a unless it is falsy (None or "")
Or(a, b) == IF a # "" THEN a ELSE b

Range(s) == {s[i] : i \in DOMAIN s}

-----------------------------------------------------------------------------
(* The inputs of the model: actions, pattern records, platforms, outputs   *)

FixInstall ==
    [method |-> "install", command_windows |-> "win-install",
     command_linux |-> "apt-install"]

\* an informational action: no command at all
FixNote == [method |-> "note", message |-> "see the documentation"]

FixGeneric == [method |-> "generic", command |-> "fix-generic"]

FixClean == [method |-> "clean", command |-> "clean-build"]

FixRepair ==
    [method |-> "repair", command_windows |-> "win-repair",
     command_linux |-> "unix-repair"]

FixVcvars == [method |-> "vcvars", command |-> "vcvars"]

\* a command for Windows only
FixWinOnly == [method |-> "winonly", command_windows |-> "win-only"]

\* an empty platform-specific command beside a generic one
FixEmptySpecific ==
    [method |-> "emptyspecific", command_windows |-> "", command_linux |-> "",
     command |-> "fix-fallback"]

FixBare == [method |-> "bare", command |-> "bare-fallback"]

\* The records of the pool share no command, so a command in the log names
\* the record it came from.
PatWindows ==
    [regex |-> <<"c", "x">>, platform |-> <<"Windows">>,
     auto_fix |-> <<FixRepair, FixVcvars>>, user_message |-> "windows"]

PatAll ==
    [regex |-> <<"C">>, platform |-> <<"all">>,
     auto_fix |-> <<FixNote, FixGeneric>>,
     fallback |-> <<FixInstall, FixClean>>, user_message |-> "all"]

\* no auto_fix key
PatUnix ==
    [regex |-> <<"x">>, platform |-> <<"Linux", "Darwin">>,
     fallback |-> <<FixWinOnly, FixEmptySpecific>>]

\* neither a regex key nor a platform key
PatBare == [auto_fix |-> <<FixNote>>, fallback |-> <<FixBare>>]

PatternPool == {PatWindows, PatAll, PatUnix, PatBare}

\* an element of what "patterns" iterates over that is no object: a number
\* or a string in the list, a character of `{"patterns": "ab"}`, a key of
\* `{"patterns": {"regex": "C"}}`; it has no .get
NotARecord == [not_a_record |-> TRUE]

\* a record whose regex does not compile (an unclosed group): re.search
\* raises re.error on it
PatBadRegex == [regex |-> <<"(">>, platform |-> <<"Linux", "Darwin">>]

\* the elements on which an iteration of the matching loop can raise
BrokenElements == {NotARecord, PatBadRegex}

\* every table of at most MaxPatterns different records of the pool, in
\* every order
WellFormedTables ==
    {t \in UNION {[1..n -> PatternPool] : n \in 0..MaxPatterns} :
        \A i, j \in DOMAIN t : t[i] = t[j] => i = j}

\* tables that end in a broken element, alone or behind a record that is
\* skipped on one platform, matches some outputs and not others
BrokenTables ==
    {t \in {<<b>> : b \in BrokenElements}
           \cup {<<PatUnix, b>> : b \in BrokenElements} :
        Len(t) <= MaxPatterns}

Tables == WellFormedTables \cup BrokenTables

Platforms == {"Windows", "Linux", "Darwin"}

Stderrs == {<<>>, <<"C">>, Rep("z", SliceLen)}

Stdouts == {<<>>, <<"x">>}

\* what a remediation subprocess can do: exit 0, exit non-zero, exceed the
\* timeout (TimeoutExpired), or fail otherwise (any other Exception)
CmdOutcomes == {"rc0", "rc1", "timeout", "exception"}

-----------------------------------------------------------------------------
(* match_error_pattern                                                     *)

\* Faulty variant of Applicable: the platform test is left out.
Applicable_Always(p, plat) == TRUE

\* Faulty variant of Applicable: a record without a platform key applies on
\* no platform.
Applicable_NeedsPlatform(p, plat) ==
    LET pattern_platforms == Range(Get(p, "platform", <<>>))
    IN  ~("all" \notin pattern_platforms /\ plat \notin pattern_platforms)

\* the platform test of the loop body: the record is not skipped
Applicable(p, plat) ==
    LET pattern_platforms == Range(Get(p, "platform", <<"all">>))
    IN  ~("all" \notin pattern_platforms /\ plat \notin pattern_platforms)

\* one iteration of the loop returns this record
Matches(p, plat, out) ==
    Applicable(p, plat) /\ re_search(Get(p, "regex", <<>>), out)

\* what the model's index operators give when the matching raises
Raised == 0 - 1

\* self.error_patterns after _load_json returned JSON on which lines 180-181
\* raise: JSON that is no object (`[]`, `null`, 5, "text", true) has no .get,
\* and an object whose "patterns" is null, a number or a boolean cannot be
\* iterated.  (An object whose "patterns" is `{}` or `""` iterates nothing
\* and is the empty table; one whose "patterns" iterates elements that are
\* no objects is a table of NotARecord.)
NotATable == <<[not_a_table |-> TRUE]>>

\* pattern.get(...) of line 182 raises AttributeError on an element that is
\* no object
GetRaises(p) == p = NotARecord

\* re.search(regex, ...) of line 189 raises re.error on a regex that does
\* not compile: in the pool, one with an unclosed group
SearchRaises(p) == "(" \in Range(Get(p, "regex", <<>>))

\* `for pattern in patterns` from the i-th record on: the index of the record
\* the loop returns, 0 when it runs to the end (return None), Raised when an
\* iteration raises
RECURSIVE ScanFrom(_, _, _, _)
ScanFrom(patterns, plat, out, i) ==
    IF i > Len(patterns) THEN 0
    ELSE IF GetRaises(patterns[i]) THEN Raised
    ELSE IF ~Applicable(patterns[i], plat)
         THEN ScanFrom(patterns, plat, out, i + 1)
         ELSE IF SearchRaises(patterns[i]) THEN Raised
         ELSE IF re_search(Get(patterns[i], "regex", <<>>), out)
              THEN i
              ELSE ScanFrom(patterns, plat, out, i + 1)

\* Faulty variant of MatchIndex: the scan keeps going and the last matching
\* record wins.
MatchIndex_LastWins(patterns, plat, out) ==
    LET first == IF patterns = NotATable THEN Raised
                 ELSE ScanFrom(patterns, plat, out, 1)
        hits == {i \in 1..Len(patterns) :
                    /\ ~GetRaises(patterns[i])
                    /\ ~SearchRaises(patterns[i])
                    /\ Matches(patterns[i], plat, out)}
    IN  IF first <= 0 THEN first ELSE CHOOSE i \in hits : \A j \in hits : j <= i

\* lines 180-190: the index of the record returned, 0 for None, Raised when
\* .get or the `for` of lines 180-181 or an iteration of the loop raises
MatchIndex(patterns, plat, out) ==
    IF patterns = NotATable THEN Raised ELSE ScanFrom(patterns, plat, out, 1)

\* match_error_pattern raises instead of returning
MatchRaises(patterns, plat, out) == MatchIndex(patterns, plat, out) = Raised

\* Optional[Dict]: <<>> is None, <<p>> is the record p
match_error_pattern(patterns, plat, out) ==
    LET i == MatchIndex(patterns, plat, out)
    IN  IF i <= 0 THEN <<>> ELSE <<patterns[i]>>

\* `if pattern:` -- None and the empty dict are falsy
Truthy(opt) == opt # <<>> /\ DOMAIN opt[1] # {}

-----------------------------------------------------------------------------
(* execute_auto_fix: the command of one action                             *)

\* Faulty variant of SelectCommand: command_linux is used on Linux only, any
\* other platform that is not Windows gets the generic command.
SelectCommand_LinuxByName(fix, plat) ==
    IF plat = "Windows"
    THEN Or(Get(fix, "command_windows", ""), Get(fix, "command", ""))
    ELSE IF plat = "Linux"
         THEN Or(Get(fix, "command_linux", ""), Get(fix, "command", ""))
         ELSE Get(fix, "command", "")

\* "" stands for no command (None or the empty string: `if not cmd`)
SelectCommand(fix, plat) ==
    IF plat = "Windows"
    THEN Or(Get(fix, "command_windows", ""), Get(fix, "command", ""))
    ELSE Or(Get(fix, "command_linux", ""), Get(fix, "command", ""))

-----------------------------------------------------------------------------
(* build_with_validation                                                   *)

\* Faulty variant of Captured: stdout is put before stderr.
Captured_StdoutFirst(err, out) == out \o err

\* error_output = result.stderr + result.stdout
Captured(err, out) == err \o out

\* the message of a result tuple: an f-string is its fixed text, the number
\* it formats (0 when none) and the excerpt of captured output it embeds
Message(label, n, excerpt) == [label |-> label, n |-> n, excerpt |-> excerpt]

SuccessMessage == Message("Build completed successfully", 0, <<>>)

ExhaustedMessage ==
    Message("Build failed after {} attempts", max_retry_attempts, <<>>)

\* Faulty variant of PhaseLabel: the labels of the two steps are exchanged.
PhaseLabel_Swapped(ph) ==
    IF ph = "configure" THEN "Build failed: " ELSE "CMake configure failed: "

PhaseLabel(ph) ==
    IF ph = "configure" THEN "CMake configure failed: " ELSE "Build failed: "

\* Faulty variant of FailureMessage: the captured output is left out.
FailureMessage_NoOutput(ph, out) == Message(PhaseLabel(ph), 0, <<>>)

\* f"CMake configure failed: {error_output[:300]}" and f"Build failed: {...}"
FailureMessage(ph, out) == Message(PhaseLabel(ph), 0, Take(out, SliceLen))

\* Faulty variant of LoopHasNext: one retry only, whatever the budget.
LoopHasNext_RetryOnce(a) == a + 1 < 2

\* Faulty variant of LoopHasNext: the range runs one value too far
\* (range(self.max_retry_attempts + 1)).
LoopHasNext_OneMore(a) == a + 1 <= max_retry_attempts

\* `for attempt in range(self.max_retry_attempts)` has a next value after a
LoopHasNext(a) == a + 1 < max_retry_attempts

\* one subprocess launched by the call, as the log keeps it: the step or the
\* kind of action, the attempt number (1-based, as logged), how it ended, the
\* command line and the index of the action in its list (0 for a build step)
Event(op, a, rc, cmd, idx) ==
    [op |-> op, attempt |-> a + 1, rc |-> rc, cmd |-> cmd, idx |-> idx]

\* return (ok, msg)
Return(ok, msg) ==
    /\ pc' = "done"
    /\ result' = <<ok, msg>>

\* Faulty variant of ContinueAttempts: the next attempt resumes at the step
\* that failed instead of starting over at the configure step.
ContinueAttempts_ResumeAtFailedStep ==
    IF LoopHasNext(attempt)
    THEN /\ pc' = phase
         /\ attempt' = attempt + 1
         /\ result' = result
    ELSE /\ Return(FALSE, ExhaustedMessage)
         /\ attempt' = attempt

\* `continue` of the attempt loop: the next attempt, or the statement after
\* the loop when the range is used up
ContinueAttempts ==
    IF LoopHasNext(attempt)
    THEN /\ pc' = "configure"
         /\ attempt' = attempt + 1
         /\ result' = result
    ELSE /\ Return(FALSE, ExhaustedMessage)
         /\ attempt' = attempt

\* Faulty variant of OnStepFailure: a failure no pattern matches uses up the
\* attempt and the loop goes on, instead of returning.
OnStepFailure_RetryUnmatched(ph, out) ==
    LET m == match_error_pattern(error_patterns, current_platform, out)
    IN  /\ phase' = ph
        /\ error_output' = out
        /\ IF MatchRaises(error_patterns, current_platform, out)
           THEN /\ pc' = "raised"
                /\ UNCHANGED <<pattern, stage, fixes, fix_i, fb_i, result>>
           ELSE /\ pattern' = m
                /\ IF Truthy(m)
                   THEN /\ pc' = "auto_fix"
                        /\ stage' = "auto_fix"
                        /\ fixes' = Get(m[1], "auto_fix", <<>>)
                        /\ fix_i' = 1
                        /\ fb_i' = 0
                        /\ result' = result
                   ELSE /\ pc' = "configure"
                        /\ result' = result
                        /\ UNCHANGED <<stage, fixes, fix_i, fb_i>>

\* Faulty variant of OnStepFailure: a matched failure goes to the fallbacks
\* of the pattern at once, its remediation actions are not tried.
OnStepFailure_FallbacksFirst(ph, out) ==
    LET m == match_error_pattern(error_patterns, current_platform, out)
    IN  /\ phase' = ph
        /\ error_output' = out
        /\ IF MatchRaises(error_patterns, current_platform, out)
           THEN /\ pc' = "raised"
                /\ UNCHANGED <<pattern, stage, fixes, fix_i, fb_i, result>>
           ELSE /\ pattern' = m
                /\ IF Truthy(m)
                   THEN /\ pc' = "fallback"
                        /\ stage' = "auto_fix"
                        /\ fixes' = Get(m[1], "auto_fix", <<>>)
                        /\ fix_i' = 1
                        /\ fb_i' = 1
                        /\ result' = result
                   ELSE /\ Return(FALSE, FailureMessage(ph, out))
                        /\ UNCHANGED <<stage, fixes, fix_i, fb_i>>

\* the branch `if result.returncode != 0` of either step, up to the call of
\* execute_auto_fix(pattern), or the return when no pattern is truthy
OnStepFailure(ph, out) ==
    LET m == match_error_pattern(error_patterns, current_platform, out)
    IN  /\ phase' = ph
        /\ error_output' = out
        /\ IF MatchRaises(error_patterns, current_platform, out)
           THEN \* match_error_pattern raises out of build_with_validation
                /\ pc' = "raised"
                /\ UNCHANGED <<pattern, stage, fixes, fix_i, fb_i, result>>
           ELSE /\ pattern' = m
                /\ IF Truthy(m)
                   THEN /\ pc' = "auto_fix"
                        /\ stage' = "auto_fix"
                        /\ fixes' = Get(m[1], "auto_fix", <<>>)
                        /\ fix_i' = 1
                        /\ fb_i' = 0
                        /\ result' = result
                   ELSE /\ Return(FALSE, FailureMessage(ph, out))
                        /\ UNCHANGED <<stage, fixes, fix_i, fb_i>>

\* fallbacks = pattern.get("fallback", []) if pattern else []
Fallbacks == IF Truthy(pattern) THEN Get(pattern[1], "fallback", <<>>) ELSE <<>>

\* what the pattern file can be when __init__ opens it: not there, UTF-8 text
\* that is not JSON, something open() or the decoder raises on (a
\* directory, bytes that are not UTF-8), JSON on which lines 180-181 raise,
\* or a JSON object whose "patterns" can be iterated (a missing key, `{}` and
\* `""` give the empty table)
PatternFiles ==
    {[status |-> "absent", patterns |-> <<>>],
     [status |-> "garbled", patterns |-> <<>>],
     [status |-> "unreadable", patterns |-> <<>>],
     [status |-> "not_a_table", patterns |-> NotATable]}
    \cup {[status |-> "ok", patterns |-> t] : t \in Tables}

\* what the decisions file can be when __init__ opens it; its content plays
\* no part in build_with_validation
DecisionFiles == {"absent", "garbled", "unreadable", "ok"}

\* `path_argument or self._find_...()`: the argument when one is given, else
\* the first existing candidate; with neither, _find_... raises
\* FileNotFoundError
FindRaises(given, candidate_exists) == ~given /\ ~candidate_exists

\* _load_json catches FileNotFoundError and json.JSONDecodeError only: any
\* other exception of open() or of the decoder (IsADirectoryError,
\* UnicodeDecodeError) leaves _load_json and __init__
LoadRaises(status) == status = "unreadable"

\* Faulty variant of LoadPatterns: a file that cannot be loaded leaves the
\* first record of the pool as table instead of an empty one.
LoadPatterns_Default(file) ==
    IF file.status \in {"ok", "not_a_table"} THEN file.patterns ELSE <<PatBare>>

\* _load_json, then .get("patterns", []): FileNotFoundError and
\* JSONDecodeError are caught and give {}, so an empty table; JSON that was
\* parsed is kept as it is
LoadPatterns(file) ==
    IF file.status \in {"ok", "not_a_table"} THEN file.patterns ELSE <<>>

\* A path of the file system is the sequence of its parts from the root
\* directory <<>>.  The process is started in this directory.
StartDir == <<"start">>

\* Path(project_dir) of a relative path: its parts, with "." and empty parts
\* dropped and ".." kept (Path(".") and Path("") have no parts)
Rel(parts) == [absolute |-> FALSE, parts |-> parts]

\* Path(project_dir) of an absolute path
Abs(parts) == [absolute |-> TRUE, parts |-> parts]

\* the project_dir arguments of a call: ".", the project's name as main()
\* passes it, the name of the source directory that every project has, the
\* project's name by way of the parent directory, and the absolute path of
\* the project made in the start directory
ProjectDirs ==
    {Rel(<<>>), Rel(<<"proj">>), Rel(<<"src">>), Rel(<<"..", "proj">>),
     Abs(<<"start", "proj">>)}

\* os.chdir walks the path part by part: ".." is the parent (the root is its
\* own parent), a name is the entry of that name, and each directory on the
\* way has to exist.  <<d>> is the directory reached, <<>> is none.
RECURSIVE Walk(_, _)
Walk(at, parts) ==
    IF parts = <<>>
    THEN <<at>>
    ELSE LET to == IF Head(parts) = ".."
                   THEN SubSeq(at, 1, IF at = <<>> THEN 0 ELSE Len(at) - 1)
                   ELSE Append(at, Head(parts))
         IN  IF to \in dirs THEN Walk(to, Tail(parts)) ELSE <<>>

\* the directory that project_dir names for a process whose working
\* directory is `from`: a relative path starts there, an absolute one at
\* the root
Resolve(project_dir, from) ==
    Walk(IF project_dir.absolute THEN <<>> ELSE from, project_dir.parts)

\* os.chdir(project_dir) succeeds from working directory `from`
ChdirOk(project_dir, from) == Resolve(project_dir, from) # <<>>

\* os.chdir(project_dir): the process is in the directory named from then
\* on (nothing changes it back), or FileNotFoundError leaves the call
Chdir(project_dir) ==
    IF ChdirOk(project_dir, cwd)
    THEN /\ pc' = "configure"
         /\ cwd' = Resolve(project_dir, cwd)[1]
         /\ chdir_error' = <<>>
    ELSE /\ pc' = "raised"
         /\ cwd' = cwd
         /\ chdir_error' = <<project_dir>>

\* before AutomationEngine(...) is constructed
Init ==
    /\ current_platform \in Platforms
    /\ error_patterns = <<>>
    /\ load = "none"
    /\ returned = <<>>
    /\ cwd = StartDir
    /\ dirs = {<<>>, StartDir}
    /\ chdir_error = <<>>
    /\ pc = "new"
    /\ attempt = 0
    /\ phase = "configure"
    /\ error_output = <<>>
    /\ pattern = <<>>
    /\ stage = "auto_fix"
    /\ fixes = <<>>
    /\ fix_i = 0
    /\ fb_i = 0
    /\ result = <<>>
    /\ log = <<>>

\* __init__ raises: neither a decisions path nor a candidate decisions.json
Construct_NoDecisions ==
    /\ pc = "new"
    /\ \E given \in BOOLEAN, candidate_exists \in BOOLEAN :
          FindRaises(given, candidate_exists)
    /\ pc' = "init_raised"
    /\ load' = "no_decisions"
    /\ UNCHANGED <<cwd, dirs, chdir_error, returned, current_platform, error_patterns,
                   attempt, phase, error_output, pattern, stage, fixes, fix_i,
                   fb_i, result, log>>

\* __init__ raises: decisions.json is located, but there is neither a pattern
\* file path nor a candidate error-patterns.json
Construct_NoPatternFile ==
    /\ pc = "new"
    /\ \E given \in BOOLEAN, candidate_exists \in BOOLEAN :
          FindRaises(given, candidate_exists)
    /\ pc' = "init_raised"
    /\ load' = "absent_no_candidate"
    /\ UNCHANGED <<cwd, dirs, chdir_error, returned, current_platform, error_patterns,
                   attempt, phase, error_output, pattern, stage, fixes, fix_i,
                   fb_i, result, log>>

\* __init__ raises: both files are located, and _load_json does not catch
\* what loading the decisions file raises
Construct_DecisionsLoadRaises ==
    /\ pc = "new"
    /\ \E given \in BOOLEAN, candidate_exists \in BOOLEAN,
          decisions \in DecisionFiles :
          /\ ~FindRaises(given, candidate_exists)
          /\ decisions = "absent" => given
          /\ LoadRaises(decisions)
    /\ pc' = "init_raised"
    /\ load' = "decisions_unreadable"
    /\ UNCHANGED <<cwd, dirs, chdir_error, returned, current_platform, error_patterns,
                   attempt, phase, error_output, pattern, stage, fixes, fix_i,
                   fb_i, result, log>>

\* __init__ raises: the decisions file is loaded, and _load_json does not
\* catch what loading the pattern file raises
Construct_PatternsLoadRaises ==
    /\ pc = "new"
    /\ \E given \in BOOLEAN, candidate_exists \in BOOLEAN,
          decisions \in DecisionFiles, file \in PatternFiles :
          /\ ~FindRaises(given, candidate_exists)
          /\ file.status = "absent" => given
          /\ ~LoadRaises(decisions)
          /\ LoadRaises(file.status)
    /\ pc' = "init_raised"
    /\ load' = "unreadable"
    /\ UNCHANGED <<cwd, dirs, chdir_error, returned, current_platform, error_patterns,
                   attempt, phase, error_output, pattern, stage, fixes, fix_i,
                   fb_i, result, log>>

\* __init__ completes: both files are located (a given path may name a file
\* that is not there, a candidate exists), neither load raises, and the
\* pattern file is loaded
Construct ==
    /\ pc = "new"
    /\ \E given \in BOOLEAN, candidate_exists \in BOOLEAN,
          decisions \in DecisionFiles, file \in PatternFiles :
          /\ ~FindRaises(given, candidate_exists)
          \* a candidate that was found exists
          /\ file.status = "absent" => given
          /\ ~LoadRaises(decisions)
          /\ ~LoadRaises(file.status)
          /\ error_patterns' = LoadPatterns(file)
          /\ load' = CASE file.status = "ok" -> "parsed"
                       [] file.status = "not_a_table" -> "not_a_table"
                       [] file.status = "garbled" -> "garbled"
                       [] OTHER -> "absent_at_given_path"
    /\ pc' = "idle"
    /\ UNCHANGED <<cwd, dirs, chdir_error, returned, current_platform, attempt, phase,
                   error_output, pattern, stage, fixes, fix_i, fb_i, result,
                   log>>

\* build_with_validation is called: os.chdir(project_dir) raises when the
\* directory cannot be entered, else the loop starts at attempt 0
Call ==
    /\ pc \in {"idle", "done", "raised"}
    /\ \E project_dir \in ProjectDirs : Chdir(project_dir)
    /\ attempt' = 0
    /\ phase' = "configure"
    /\ error_output' = <<>>
    /\ pattern' = <<>>
    /\ stage' = "auto_fix"
    /\ fixes' = <<>>
    /\ fix_i' = 0
    /\ fb_i' = 0
    /\ result' = <<>>
    /\ log' = <<>>
    /\ returned' = <<>>
    /\ UNCHANGED <<dirs, current_platform, error_patterns, load>>

\* Step 1: subprocess.run(["cmake", "-B", "build"]) cannot be launched
ConfigureRaises ==
    /\ pc = "configure"
    /\ pc' = "raised"
    /\ log' = Append(log, Event("configure", attempt, "noexec", "cmake -B build", 0))
    /\ UNCHANGED <<cwd, dirs, chdir_error, returned, current_platform, error_patterns, load,
                   attempt, phase, error_output, pattern, stage, fixes, fix_i,
                   fb_i, result>>

\* Step 1 exits 0: on to step 2
ConfigureOk ==
    /\ pc = "configure"
    /\ pc' = "compile"
    /\ log' = Append(log, Event("configure", attempt, "rc0", "cmake -B build", 0))
    /\ UNCHANGED <<cwd, dirs, chdir_error, returned, current_platform, error_patterns, load,
                   attempt, phase, error_output, pattern, stage, fixes, fix_i,
                   fb_i, result>>

\* Faulty variant of ConfigureFails: the exit status of the configure step is
\* not looked at, the compile step follows a failed configure.
ConfigureFails_FallsThrough ==
    /\ pc = "configure"
    /\ pc' = "compile"
    /\ log' = Append(log, Event("configure", attempt, "rc1", "cmake -B build", 0))
    /\ UNCHANGED <<cwd, dirs, chdir_error, returned, current_platform, error_patterns, load,
                   attempt, phase, error_output, pattern, stage, fixes, fix_i,
                   fb_i, result>>

\* Step 1 exits non-zero with some stderr and stdout
ConfigureFails ==
    /\ pc = "configure"
    /\ \E err \in Stderrs, out \in Stdouts :
          OnStepFailure("configure", Captured(err, out))
    /\ log' = Append(log, Event("configure", attempt, "rc1", "cmake -B build", 0))
    /\ UNCHANGED <<cwd, dirs, chdir_error, returned, current_platform, error_patterns, load,
                   attempt>>

\* Step 2: subprocess.run(["cmake", "--build", "build"]) cannot be launched
CompileRaises ==
    /\ pc = "compile"
    /\ pc' = "raised"
    /\ log' = Append(log, Event("compile", attempt, "noexec", "cmake --build build", 0))
    /\ UNCHANGED <<cwd, dirs, chdir_error, returned, current_platform, error_patterns, load,
                   attempt, phase, error_output, pattern, stage, fixes, fix_i,
                   fb_i, result>>

\* Faulty variant of CompileOk: a successful build does not return but goes
\* round the attempt loop again.
CompileOk_NoReturn ==
    /\ pc = "compile"
    /\ ContinueAttempts
    /\ log' = Append(log, Event("compile", attempt, "rc0", "cmake --build build", 0))
    /\ UNCHANGED <<cwd, dirs, chdir_error, returned, current_platform, error_patterns, load,
                   phase, error_output, pattern, stage, fixes, fix_i, fb_i>>

\* Step 2 exits 0: return (True, "Build completed successfully")
CompileOk ==
    /\ pc = "compile"
    /\ Return(TRUE, SuccessMessage)
    /\ log' = Append(log, Event("compile", attempt, "rc0", "cmake --build build", 0))
    /\ UNCHANGED <<cwd, dirs, chdir_error, returned, current_platform, error_patterns, load,
                   attempt, phase, error_output, pattern, stage, fixes, fix_i,
                   fb_i>>

\* Step 2 exits non-zero with some stderr and stdout
CompileFails ==
    /\ pc = "compile"
    /\ \E err \in Stderrs, out \in Stdouts :
          OnStepFailure("compile", Captured(err, out))
    /\ log' = Append(log, Event("compile", attempt, "rc1", "cmake --build build", 0))
    /\ UNCHANGED <<cwd, dirs, chdir_error, returned, current_platform, error_patterns, load,
                   attempt>>

\* Faulty variant of AfterRemediation: a fix that reported success is not
\* followed by a retry, the fallback loop is entered as after a failed fix.
AfterRemediation_NoRetry(fixed) ==
    /\ pc' = "fallback"
    /\ fb_i' = 1
    /\ UNCHANGED <<attempt, result>>

\* Faulty variant of AfterRemediation: a fix that reported success ends the
\* call with the success result, the build is not run again.
AfterRemediation_FixMeansSuccess(fixed) ==
    IF fixed
    THEN /\ Return(TRUE, SuccessMessage)
         /\ UNCHANGED <<attempt, fb_i>>
    ELSE /\ pc' = "fallback"
         /\ fb_i' = 1
         /\ UNCHANGED <<attempt, result>>

\* execute_auto_fix(pattern) returned `fixed` at `if self.execute_auto_fix(pattern)`:
\* True continues the attempt loop, False goes on to the fallback loop
AfterRemediation(fixed) ==
    IF fixed
    THEN /\ ContinueAttempts
         /\ fb_i' = fb_i
    ELSE /\ pc' = "fallback"
         /\ fb_i' = 1
         /\ UNCHANGED <<attempt, result>>

\* Variant of AfterFallback that takes the returned value into account: after
\* a fallback that exited 0 the attempt loop is continued.
AfterFallback_Retries(fixed) ==
    IF fixed
    THEN /\ ContinueAttempts
         /\ fb_i' = fb_i
    ELSE /\ pc' = "fallback"
         /\ fb_i' = fb_i + 1
         /\ UNCHANGED <<attempt, result>>

\* execute_auto_fix({"auto_fix": [fallback]}) returned `fixed` inside
\* `for fallback in fallbacks`: the `continue` of the True branch is the
\* innermost loop's, so either value goes on to the next fallback
AfterFallback(fixed) ==
    /\ pc' = "fallback"
    /\ fb_i' = fb_i + 1
    /\ UNCHANGED <<attempt, result>>

\* execute_auto_fix returns to the place that called it
AutoFixReturns(fixed) ==
    /\ returned' = <<fixed>>
    /\ IF stage = "auto_fix" THEN AfterRemediation(fixed) ELSE AfterFallback(fixed)

\* execute_auto_fix: `if not auto_fixes: return False`, or the loop is over
\* and `return False` follows it
AutoFixNotFixed ==
    /\ pc = "auto_fix"
    /\ fix_i > Len(fixes)
    /\ AutoFixReturns(FALSE)
    /\ UNCHANGED <<cwd, dirs, chdir_error, current_platform, error_patterns, load, phase,
                   error_output, pattern, stage, fixes, fix_i, log>>

\* Faulty variant of AutoFixSkip: an action without a command counts as a
\* fix that was applied.
AutoFixSkip_CountsAsFixed ==
    /\ pc = "auto_fix"
    /\ fix_i <= Len(fixes)
    /\ SelectCommand(fixes[fix_i], current_platform) = ""
    /\ AutoFixReturns(TRUE)
    /\ UNCHANGED <<cwd, dirs, chdir_error, current_platform, error_patterns, load, phase,
                   error_output, pattern, stage, fixes, fix_i, log>>

\* Faulty variant of AutoFixSkip: the action without a command is looked at
\* again and again, the loop does not move on.
AutoFixSkip_Stays ==
    /\ pc = "auto_fix"
    /\ fix_i <= Len(fixes)
    /\ SelectCommand(fixes[fix_i], current_platform) = ""
    /\ UNCHANGED vars

\* execute_auto_fix: an action without a command is logged and skipped
AutoFixSkip ==
    /\ pc = "auto_fix"
    /\ fix_i <= Len(fixes)
    /\ SelectCommand(fixes[fix_i], current_platform) = ""
    /\ fix_i' = fix_i + 1
    /\ UNCHANGED <<cwd, dirs, chdir_error, returned, current_platform, error_patterns, load,
                   pc, attempt, phase, error_output, pattern, stage, fixes,
                   fb_i, result, log>>

\* Faulty variant of AfterCommand: an exit status of 0 does not end the loop,
\* the next action is run all the same.
AfterCommand_KeepsGoing(outcome) ==
    /\ fix_i' = fix_i + 1
    /\ UNCHANGED <<pc, attempt, fb_i, result, returned>>

\* Faulty variant of AfterCommand: a command that timed out counts as a fix.
AfterCommand_TimeoutCounts(outcome) ==
    IF outcome \in {"rc0", "timeout"}
    THEN /\ AutoFixReturns(TRUE)
         /\ fix_i' = fix_i
    ELSE /\ fix_i' = fix_i + 1
         /\ UNCHANGED <<pc, attempt, fb_i, result, returned>>

\* Faulty variant of AfterCommand: a command that ran to its end counts as a
\* fix whatever its exit status.
AfterCommand_AnyExitCounts(outcome) ==
    IF outcome \in {"rc0", "rc1"}
    THEN /\ AutoFixReturns(TRUE)
         /\ fix_i' = fix_i
    ELSE /\ fix_i' = fix_i + 1
         /\ UNCHANGED <<pc, attempt, fb_i, result, returned>>

\* execute_auto_fix, after subprocess.run: `if result.returncode == 0: return
\* True`; a non-zero exit, TimeoutExpired and any other exception (both
\* caught and logged) fall through to the next action of the loop
AfterCommand(outcome) ==
    IF outcome = "rc0"
    THEN /\ AutoFixReturns(TRUE)
         /\ fix_i' = fix_i
    ELSE /\ fix_i' = fix_i + 1
         /\ UNCHANGED <<pc, attempt, fb_i, result, returned>>

\* execute_auto_fix: subprocess.run(cmd, shell=True, timeout=30) of the
\* current action
AutoFixRun ==
    /\ pc = "auto_fix"
    /\ fix_i <= Len(fixes)
    /\ LET cmd == SelectCommand(fixes[fix_i], current_platform)
       IN  /\ cmd # ""
           /\ \E outcome \in CmdOutcomes :
                /\ log' = Append(log, Event(stage, attempt, outcome, cmd,
                                            IF stage = "auto_fix" THEN fix_i ELSE fb_i))
                /\ AfterCommand(outcome)
    /\ UNCHANGED <<cwd, dirs, chdir_error, current_platform, error_patterns, load, phase,
                   error_output, pattern, stage, fixes>>

\* `for fallback in fallbacks`: the next fallback is wrapped as a one-action
\* pattern and handed to execute_auto_fix
FallbackNext ==
    /\ pc = "fallback"
    /\ fb_i <= Len(Fallbacks)
    /\ pc' = "auto_fix"
    /\ stage' = "fallback"
    /\ fixes' = <<Fallbacks[fb_i]>>
    /\ fix_i' = 1
    /\ UNCHANGED <<cwd, dirs, chdir_error, returned, current_platform, error_patterns, load,
                   attempt, phase, error_output, pattern, fb_i, result, log>>

\* Faulty variant of FallbackEnd: when the fallback loop is over the attempt
\* loop is continued instead of returning the step's failure.
FallbackEnd_Retries ==
    /\ pc = "fallback"
    /\ fb_i > Len(Fallbacks)
    /\ ContinueAttempts
    /\ UNCHANGED <<cwd, dirs, chdir_error, returned, current_platform, error_patterns, load,
                   phase, error_output, pattern, stage, fixes, fix_i, fb_i,
                   log>>

\* Faulty variant of FallbackEnd: the pattern whose recovery failed is taken
\* out of the table when the failure is returned.
FallbackEnd_DropsPattern ==
    /\ pc = "fallback"
    /\ fb_i > Len(Fallbacks)
    /\ Return(FALSE, FailureMessage(phase, error_output))
    /\ error_patterns' = IF pattern = <<>> THEN error_patterns
                         ELSE SelectSeq(error_patterns, LAMBDA p : p # pattern[1])
    /\ UNCHANGED <<cwd, dirs, chdir_error, returned, current_platform, load,
                   attempt, phase, error_output, pattern, stage, fixes, fix_i,
                   fb_i, log>>

\* the fallback loop is over: return False with the failed step's message
FallbackEnd ==
    /\ pc = "fallback"
    /\ fb_i > Len(Fallbacks)
    /\ Return(FALSE, FailureMessage(phase, error_output))
    /\ UNCHANGED <<cwd, dirs, chdir_error, returned, current_platform, error_patterns, load,
                   attempt, phase, error_output, pattern, stage, fixes, fix_i,
                   fb_i, log>>

Next ==
    \/ Construct_NoDecisions
    \/ Construct_NoPatternFile
    \/ Construct_DecisionsLoadRaises
    \/ Construct_PatternsLoadRaises
    \/ Construct
    \/ Call
    \/ ConfigureRaises
    \/ ConfigureOk
    \/ ConfigureFails
    \/ CompileRaises
    \/ CompileOk
    \/ CompileFails
    \/ AutoFixNotFixed
    \/ AutoFixSkip
    \/ AutoFixRun
    \/ FallbackNext
    \/ FallbackEnd

Spec == Init /\ [][Next]_vars

-----------------------------------------------------------------------------
(* Reading the log                                                         *)

BuildOps == {"configure", "compile"}

FixOps == {"auto_fix", "fallback"}

\* how many times the step or kind of action `op` was launched in this call
NumOp(op) == Cardinality({i \in DOMAIN log : log[i].op = op})

Last(s) == s[Len(s)]

\* the last launched subprocess is a build step that exited non-zero, so
\* error_output is its captured output
LastIsFailure(op) ==
    /\ log # <<>>
    /\ Last(log).op = op
    /\ Last(log).rc = "rc1"

\* the platform list of p names neither plat nor "all"
Restricted(p, plat) ==
    /\ "platform" \in DOMAIN p
    /\ \A k \in DOMAIN p.platform : p.platform[k] \notin {plat, "all"}

\* p is platform-applicable and its regex is found in out
Satisfies(p, plat, out) ==
    /\ ~Restricted(p, plat)
    /\ re_search(IF "regex" \in DOMAIN p THEN p.regex ELSE <<>>, out)

\* match_error_pattern returns for out: there is a table and the scan meets
\* no element it raises on
MatchReturns(out) == ~MatchRaises(error_patterns, current_platform, out)

\* the match returns and no record of the table satisfies both conditions
\* for out
NoPatternMatches(out) ==
    /\ MatchReturns(out)
    /\ \A i \in DOMAIN error_patterns :
          ~Satisfies(error_patterns[i], current_platform, out)

-----------------------------------------------------------------------------
(* The claims                                                              *)

\* C1: in one call of build_with_validation the configure step is launched
\* at most max_retry_attempts (3) times, the compile step at most 3 times,
\* and the attempt number (of the loop and of every launched subprocess)
\* never exceeds 3.
C1_RetryBudget ==
    /\ NumOp("configure") <= max_retry_attempts
    /\ NumOp("compile") <= max_retry_attempts
    /\ attempt + 1 <= max_retry_attempts
    /\ \A i \in DOMAIN log : log[i].attempt <= max_retry_attempts

\* the whole budget is used: three configure and three compile launches
C1_Witness ==
    /\ NumOp("configure") = max_retry_attempts
    /\ NumOp("compile") = max_retry_attempts

\* C2: once the configure step and the compile step of an attempt have both
\* exited 0, the call has returned (True, "Build completed successfully")
\* and that compile step is the last subprocess of the call.
C2_SuccessReturnsAtOnce ==
    \A i \in DOMAIN log :
        ( /\ i > 1
          /\ log[i].op = "compile" /\ log[i].rc = "rc0"
          /\ log[i - 1].op = "configure" /\ log[i - 1].rc = "rc0"
          /\ log[i - 1].attempt = log[i].attempt )
        => /\ i = Len(log)
           /\ pc = "done"
           /\ result = <<TRUE, SuccessMessage>>

\* success in the third attempt, after two fixed failures
C2_Witness ==
    /\ pc = "done"
    /\ result = <<TRUE, SuccessMessage>>
    /\ attempt = 2
    /\ Last(log).op = "compile"

\* C3: when a build step fails with output that no pattern of the table
\* matches, the call returns failure in that same attempt: the failed step is
\* the last subprocess of the call (no remediation or fallback command, no
\* further configure or compile) and the result is a failure of that step.
C3_UnmatchedReturnsAtOnce ==
    /\ \A op \in BuildOps :
        (LastIsFailure(op) /\ NoPatternMatches(error_output))
        => /\ pc = "done"
           /\ result[1] = FALSE
           /\ result[2].label = PhaseLabel(op)
           /\ attempt + 1 = Last(log).attempt
    \* a remediation or fallback command is only ever launched, or about to
    \* be, with a pattern in hand, and the pattern in hand after a failed step
    \* is one that matches its output
    /\ (pc \in FixOps \/ (log # <<>> /\ Last(log).op \in FixOps))
        => pattern # <<>>
    /\ \A op \in BuildOps :
        (LastIsFailure(op) /\ pattern # <<>>)
        => ~NoPatternMatches(error_output)
    \* and what follows a failed build step in the log is never a build step
    /\ \A i \in DOMAIN log :
        (i > 1 /\ log[i - 1].op \in BuildOps /\ log[i - 1].rc = "rc1")
        => log[i].op \in FixOps

\* an unmatched compile failure in the second attempt, with a table that
\* does hold a pattern
C3_Witness ==
    /\ LastIsFailure("compile")
    /\ NoPatternMatches(error_output)
    /\ error_patterns # <<>>
    /\ Last(log).attempt = 2
    /\ pc = "done"

\* the compile step was launched at least once and failed every time
CompileAlwaysFailed ==
    /\ NumOp("compile") > 0
    /\ \A i \in DOMAIN log : log[i].op = "compile" => log[i].rc = "rc1"

\* C4 as stated: when the compile step fails on every attempt with output
\* that matches no pattern, the call goes through 3 attempts and returns
\* (False, "Build failed after 3 attempts").
C4_Original ==
    (pc = "done" /\ CompileAlwaysFailed /\ LastIsFailure("compile")
        /\ NoPatternMatches(error_output))
    => /\ NumOp("compile") = max_retry_attempts
       /\ result = <<FALSE, ExhaustedMessage>>

\* C4, amended: when the compile step fails with output that matches no
\* pattern, the call ends in that same attempt and returns (False, "Build
\* failed: " followed by the first 300 characters of that output), never
\* (False, "Build failed after 3 attempts"); when compile failed every time
\* it was launched and the first attempt's configure succeeded, that is after
\* one attempt.
C4_UnmatchedCompileFailure ==
    (LastIsFailure("compile") /\ NoPatternMatches(error_output))
    => /\ pc = "done"
       /\ result = <<FALSE, Message("Build failed: ", 0,
                                     SubSeq(error_output, 1,
                                            IF Len(error_output) < 300
                                            THEN Len(error_output) ELSE 300))>>
       /\ result # <<FALSE, ExhaustedMessage>>
       /\ attempt + 1 = Last(log).attempt
       /\ (log[1].rc = "rc0" /\ \A i \in DOMAIN log : log[i].op \notin FixOps)
            => (Len(log) = 2 /\ attempt = 0)

\* the scenario of the claim: first attempt, configure exits 0, compile
\* fails with a non-empty output that matches nothing
C4_Witness ==
    /\ pc = "done"
    /\ Len(log) = 2
    /\ LastIsFailure("compile")
    /\ NoPatternMatches(error_output)
    /\ error_output = <<"C", "x">>
    /\ error_patterns # <<>>

\* the recovery of attempt k reported fixed: a call of execute_auto_fix, on
\* the pattern or on a fallback wrapped as a one-action pattern, returned
\* True
RecoveryFixed(k) ==
    \E i \in DOMAIN log :
        log[i].attempt = k /\ log[i].op \in FixOps /\ log[i].rc = "rc0"

\* the step `op` failed in attempt k
FailsAt(k, op) ==
    \E i \in DOMAIN log :
        log[i].attempt = k /\ log[i].op = op /\ log[i].rc = "rc1"

\* C5 (as claimed): when each of the 3 attempts ended in a failed step
\* (configure or compile) whose recovery reported fixed, the call returns
\* (False, "Build failed after 3 attempts") with 3 configure launches and no
\* fourth; and it returns that message in no other situation.
C5_Original ==
    /\ (pc = "done" /\ \A k \in 1..max_retry_attempts : RecoveryFixed(k))
        => /\ result = <<FALSE, ExhaustedMessage>>
           /\ NumOp("configure") = max_retry_attempts
           /\ NumOp("compile") <= max_retry_attempts
    /\ result = <<FALSE, ExhaustedMessage>>
        => \A k \in 1..max_retry_attempts :
              /\ RecoveryFixed(k)
              /\ \E op \in BuildOps : FailsAt(k, op)

\* C6: optimistic retry.  After attempt 1's configure failed and a
\* remediation command of the matched pattern exited 0, the next thing
\* launched is attempt 2's configure step (nothing re-checks the original
\* error); if that configure and the compile step both exit 0 the call
\* returns (True, "Build completed successfully") after exactly 2 configure
\* launches and 1 compile launch.
C6_OptimisticRetry ==
    /\ ( /\ Len(log) >= 2
         /\ log[1].op = "configure" /\ log[1].rc = "rc1"
         /\ Last(log).op = "auto_fix" /\ Last(log).rc = "rc0"
         /\ Last(log).attempt = 1 )
        => /\ pc = "configure"
           /\ attempt = 1
           /\ result = <<>>
    /\ ( /\ Len(log) >= 4
         /\ log[1].op = "configure" /\ log[1].rc = "rc1"
         /\ Last(log).op = "compile" /\ Last(log).rc = "rc0"
         /\ Last(log).attempt = 2 )
        => /\ pc = "done"
           /\ result = <<TRUE, SuccessMessage>>
           /\ NumOp("configure") = 2
           /\ NumOp("compile") = 1
           /\ log[Len(log) - 1].op = "configure"
           /\ log[Len(log) - 1].rc = "rc0"
           /\ log[Len(log) - 2].op = "auto_fix"
           /\ log[Len(log) - 2].rc = "rc0"
           /\ log[Len(log) - 2].attempt = 1

\* the scenario: configure fails, a fix exits 0, configure and compile exit 0
C6_Witness ==
    /\ pc = "done"
    /\ result = <<TRUE, SuccessMessage>>
    /\ Len(log) = 4
    /\ log[1].op = "configure" /\ log[1].rc = "rc1"
    /\ log[2].op = "auto_fix" /\ log[2].rc = "rc0"

\* attempt k ended with the first remediation action's command exiting 0
FixedByFirst(k) ==
    \E i \in DOMAIN log :
        /\ log[i].attempt = k /\ log[i].op = "auto_fix"
        /\ log[i].idx = 1 /\ log[i].rc = "rc0"

\* C7 as stated: after a failure fixed by the first remediation action the
\* controller retries once; if the same step fails again it gives up without
\* a further retry.
C7_Original ==
    \A k \in 1..(max_retry_attempts - 1), op \in BuildOps :
        (FailsAt(k, op) /\ FixedByFirst(k) /\ FailsAt(k + 1, op))
        => /\ \A i \in DOMAIN log : log[i].attempt <= k + 1
           /\ ~(pc \in BuildOps /\ attempt + 1 > k + 1)

\* C7, amended: for a matched pattern whose first remediation action's
\* command exits 0, recovery reports fixed and the controller starts the
\* next attempt, from the configure step, whenever fewer than 3 attempts
\* have been made -- also when the same step had already failed and been
\* fixed in the attempt before; after the third attempt it gives up with
\* (False, "Build failed after 3 attempts").
C7_RetryWhileBudgetLasts ==
    ( /\ Len(log) >= 2
      /\ Last(log).op = "auto_fix" /\ Last(log).idx = 1
      /\ Last(log).rc = "rc0" )
    => /\ log[Len(log) - 1].op \in BuildOps
       /\ log[Len(log) - 1].rc = "rc1"
       /\ IF Last(log).attempt < max_retry_attempts
          THEN /\ pc = "configure"
               /\ attempt + 1 = Last(log).attempt + 1
               /\ result = <<>>
          ELSE /\ pc = "done"
               /\ result = <<FALSE, ExhaustedMessage>>

\* the same step failed in attempts 1 and 2, was fixed by the first action
\* both times, and a third attempt starts
C7_Witness ==
    /\ \E op \in BuildOps : FailsAt(1, op) /\ FailsAt(2, op)
    /\ FixedByFirst(1)
    /\ FixedByFirst(2)
    /\ pc = "configure"
    /\ attempt = 2

\* the commands an action record holds, for any platform
CommandsOf(fix) ==
    {f[2] : f \in {g \in {<<k, fix[k]>> : k \in DOMAIN fix} :
                      /\ g[1] \in {"command", "command_windows", "command_linux"}
                      /\ g[2] # ""}}

\* the commands of the remediation and fallback actions of record p
PatternCommands(p) ==
    LET acts == Range(IF "auto_fix" \in DOMAIN p THEN p.auto_fix ELSE <<>>)
                \cup Range(IF "fallback" \in DOMAIN p THEN p.fallback ELSE <<>>)
    IN  UNION {CommandsOf(a) : a \in acts}

\* C8: match_error_pattern never returns a record whose platform list names
\* neither the current platform nor "all", even when the record's regex is
\* found in the output: the result of the match made for a failed step, and
\* so the pattern the controller works on, is never such a record, and no
\* remediation or fallback command that was launched is a command of a
\* platform-restricted record of the table (the records of the pool share no
\* command). Where the match raises (the pattern file held no table, or the scan
\* met an element it cannot process) there is no result to speak of.
C8_PlatformRestrictedNeverMatches ==
    /\ pattern # <<>> => ~Restricted(pattern[1], current_platform)
    /\ \A op \in BuildOps :
          (LastIsFailure(op) /\ MatchReturns(error_output))
          => LET m == match_error_pattern(error_patterns, current_platform,
                                          error_output)
             IN  /\ pattern = m
                 /\ m # <<>> => ~Restricted(m[1], current_platform)
    /\ \A i \in DOMAIN log, k \in DOMAIN error_patterns :
          (log[i].op \in FixOps /\ Restricted(error_patterns[k], current_platform))
          => log[i].cmd \notin PatternCommands(error_patterns[k])

\* the first record of the table is restricted to another platform and its
\* regex is found in the output; the second record was matched instead and
\* one of its commands was launched
C8_Witness ==
    /\ Len(error_patterns) = 2
    /\ Restricted(error_patterns[1], current_platform)
    /\ re_search(error_patterns[1].regex, error_output)
    /\ pattern = <<error_patterns[2]>>
    /\ log # <<>>
    /\ Last(log).op \in FixOps

\* C9: for the output of every failed step, match_error_pattern returns the
\* record with the lowest table index among those that are
\* platform-applicable and whose regex is found in the output -- a later
\* such record never takes precedence -- and None exactly when no record
\* satisfies both. (Where the match raises there is no result.)
C9_FirstMatchWins ==
    \A op \in BuildOps :
        (LastIsFailure(op) /\ MatchReturns(error_output))
        => LET sat == {k \in DOMAIN error_patterns :
                          Satisfies(error_patterns[k], current_platform,
                                    error_output)}
           IN  /\ (pattern = <<>>) <=> (sat = {})
               /\ sat # {}
                  => \E k \in sat :
                        /\ \A j \in sat : k <= j
                        /\ pattern = <<error_patterns[k]>>

\* two different records both satisfy the conditions for the output of the
\* failed step and the first one is the controller's pattern
C9_Witness ==
    /\ Len(error_patterns) = 2
    /\ error_patterns[1] # error_patterns[2]
    /\ Satisfies(error_patterns[1], current_platform, error_output)
    /\ Satisfies(error_patterns[2], current_platform, error_output)
    /\ pattern = <<error_patterns[1]>>
    /\ \E op \in BuildOps : LastIsFailure(op)

\* C10: with an empty pattern table every configure or compile failure ends
\* the call at once with a failure result that carries the captured output
\* (its first 300 characters, which is all of it when it is no longer), and
\* no remediation or fallback command is launched in the whole call.
C10_EmptyTableSurfacesFailure ==
    error_patterns = <<>>
    => /\ \A i \in DOMAIN log : log[i].op \notin FixOps
       /\ pc \notin FixOps
       /\ \A op \in BuildOps :
             (\E i \in DOMAIN log : log[i].op = op /\ log[i].rc = "rc1")
             => /\ LastIsFailure(op)
                /\ pc = "done"
                /\ result[1] = FALSE
                /\ result[2].label = PhaseLabel(op)
                /\ result[2].excerpt = Take(error_output, SliceLen)
                /\ Len(error_output) <= SliceLen
                   => result[2].excerpt = error_output

\* an empty table and a compile failure with output, surfaced in the result
C10_Witness ==
    /\ error_patterns = <<>>
    /\ pc = "done"
    /\ LastIsFailure("compile")
    /\ error_output = <<"C", "x">>
    /\ result[2].excerpt = <<"C", "x">>


\* the actions of `p` that have a command on platform `plat`, by position in
\* list `key` ("auto_fix" or "fallback")
Commanded(p, key, plat) ==
    {k \in DOMAIN Get(p, key, <<>>) : SelectCommand(Get(p, key, <<>>)[k], plat) # ""}

\* the recovery of the attempt that failed last is under way, or it is over
\* and the step's failure has been returned: `pattern` is the pattern that
\* matched in the log's last attempt
InRecovery ==
    /\ pattern # <<>>
    /\ \/ pc \in {"auto_fix", "fallback"}
       \/ /\ pc = "done"
          /\ log # <<>>
          /\ Last(log).op \in FixOps
          /\ result # <<FALSE, ExhaustedMessage>>

\* C11: the remediation actions of the matched pattern are run in list order,
\* none that has a command is passed over, and the first one whose command
\* exits 0 ends the run: it is reported as a fix (the next attempt starts, or
\* the budget is spent) and no later action is executed in that attempt.
C11_RemediationStopsAtFirstSuccess ==
    /\ \A i \in DOMAIN log :
          log[i].op = "auto_fix" /\ i < Len(log) =>
             IF log[i].rc = "rc0"
             THEN /\ log[i + 1].op = "configure"
                  /\ log[i + 1].attempt = log[i].attempt + 1
             ELSE /\ log[i + 1].attempt = log[i].attempt
                  /\ \/ log[i + 1].op = "fallback"
                     \/ log[i + 1].op = "auto_fix" /\ log[i + 1].idx > log[i].idx
    /\ (log # <<>> /\ Last(log).op = "auto_fix" /\ Last(log).rc = "rc0") =>
          \/ pc = "configure" /\ attempt = Last(log).attempt
          \/ pc = "done" /\ result = <<FALSE, ExhaustedMessage>>
    /\ InRecovery =>
          LET done == {i \in DOMAIN log :
                          log[i].op = "auto_fix" /\ log[i].attempt = attempt + 1}
              upto == IF pc = "auto_fix" /\ stage = "auto_fix"
                      THEN fix_i - 1 ELSE Len(Get(pattern[1], "auto_fix", <<>>))
          IN  /\ {log[i].idx : i \in done}
                    = {k \in Commanded(pattern[1], "auto_fix", current_platform) : k <= upto}
              /\ \A i \in done :
                    log[i].cmd = SelectCommand(pattern[1].auto_fix[log[i].idx],
                                               current_platform)

\* the second action of a two-action pattern is not reached: the first one
\* exited 0 and the next attempt is about to configure
C11_Witness ==
    /\ pc = "configure"
    /\ log # <<>>
    /\ Last(log) = Event("auto_fix", 0, "rc0", "win-repair", 1)
    /\ pattern = <<PatWindows>>
    /\ current_platform = "Windows"


\* C12 (as claimed): a fallback command that exits 0 while attempts remain
\* is followed by the next attempt's configure step, as a remediation command
\* that exits 0 is.
C12_Original ==
    \A i \in DOMAIN log :
       (/\ log[i].op = "fallback"
        /\ log[i].rc = "rc0"
        /\ log[i].attempt < max_retry_attempts) =>
          IF i < Len(log)
          THEN /\ log[i + 1].op = "configure"
               /\ log[i + 1].attempt = log[i].attempt + 1
          ELSE /\ pc = "configure"
               /\ attempt = log[i].attempt


\* the step that failed in the log's last attempt matched `pattern`, and
\* every remediation and fallback action of it that has a command has been
\* run in that attempt without any exiting 0
RecoveryExhausted ==
    /\ log # <<>>
    /\ pattern # <<>>
    /\ LET a == Last(log).attempt
           ran(op) == {i \in DOMAIN log : log[i].attempt = a /\ log[i].op = op}
       IN  /\ \E i \in DOMAIN log :
                log[i].attempt = a /\ log[i].op \in BuildOps /\ log[i].rc = "rc1"
           /\ \A i \in ran("auto_fix") \cup ran("fallback") : log[i].rc # "rc0"
           /\ {log[i].idx : i \in ran("auto_fix")}
                 = Commanded(pattern[1], "auto_fix", current_platform)
           /\ {log[i].idx : i \in ran("fallback")}
                 = Commanded(pattern[1], "fallback", current_platform)

\* C13: once a matched failure has had all its remediation and fallback
\* commands run without an exit status of 0 (actions without a command are
\* passed over), the call is over in that same attempt: nothing further is
\* launched, no new attempt starts whatever the budget, and what is returned
\* is the failure of the step that failed.
C13_UnfixedFailureReturnsAtOnce ==
    RecoveryExhausted =>
       /\ pc \in {"auto_fix", "fallback", "done"}
       /\ attempt + 1 = Last(log).attempt
       /\ pc = "done" =>
             \E i \in DOMAIN log :
                /\ log[i].attempt = Last(log).attempt
                /\ log[i].op \in BuildOps
                /\ log[i].rc = "rc1"
                /\ result = <<FALSE, FailureMessage(log[i].op, error_output)>>

\* attempt 1's configure failure matched a pattern with one commanded
\* remediation action and two commanded fallbacks; all three failed and the
\* call has returned with two attempts unused
C13_Witness ==
    /\ pc = "done"
    /\ RecoveryExhausted
    /\ pattern = <<PatAll>>
    /\ attempt = 0
    /\ Len(log) = 4
    /\ log[3].rc = "timeout"


\* C14 (as claimed): whatever happens to a configure, compile or remediation
\* subprocess, a failure to launch the build tool included, the call does not
\* end with an exception.
C14_Original ==
    log # <<>> => pc # "raised"


\* the least element of a non-empty set of numbers
Least(S) == CHOOSE k \in S : \A m \in S : k <= m

\* C15: a remediation or fallback command that timed out or could not be run
\* counts as not fixed and raises nothing: the next thing launched, if any,
\* belongs to the same attempt and is the next action that has a command
\* (for a fallback, a later fallback); when it is the last thing launched
\* the controller is still recovering or has returned the step's failure.
C15_TimeoutOrErrorIsUnsuccessful ==
    \A i \in DOMAIN log :
       (log[i].op \in FixOps /\ log[i].rc \in {"timeout", "exception"}) =>
          /\ i < Len(log) =>
                /\ log[i + 1].attempt = log[i].attempt
                /\ log[i + 1].op \in FixOps
                /\ log[i + 1].op = log[i].op => log[i + 1].idx > log[i].idx
                /\ log[i].op = "fallback" => log[i + 1].op = "fallback"
          /\ i = Len(log) =>
                /\ pc \in {"auto_fix", "fallback", "done"}
                /\ attempt + 1 = log[i].attempt
                /\ pc = "done" => result = <<FALSE, FailureMessage(phase, error_output)>>
          /\ (InRecovery /\ log[i].op = "auto_fix" /\ log[i].attempt = attempt + 1) =>
                LET later == {k \in Commanded(pattern[1], "auto_fix", current_platform) :
                                 k > log[i].idx}
                IN  IF i < Len(log)
                    THEN IF later = {}
                         THEN log[i + 1].op = "fallback"
                         ELSE /\ log[i + 1].op = "auto_fix"
                              /\ log[i + 1].idx = Least(later)
                    ELSE later # {} => pc = "auto_fix" /\ stage = "auto_fix"

\* a remediation command raised, the first fallback timed out, the second
\* fallback was run after it and the configure failure has been returned
C15_Witness ==
    /\ pc = "done"
    /\ pattern = <<PatAll>>
    /\ Len(log) = 4
    /\ log[2].op = "auto_fix" /\ log[2].rc = "exception"
    /\ log[3].op = "fallback" /\ log[3].rc = "timeout"
    /\ log[4].op = "fallback" /\ log[4].idx = 2
    /\ result = <<FALSE, FailureMessage("configure", error_output)>>


\* C16 (as claimed): when the pattern file is absent or cannot be parsed
\* (it is not JSON, or cannot be read and decoded at all) the constructor
\* does not fail.
C16_Original ==
    load \in {"absent_at_given_path", "absent_no_candidate", "garbled",
              "unreadable"} =>
       pc # "init_raised"

\* C16: when the pattern file is UTF-8 text that is not JSON, or is absent at
\* a path passed to the constructor, construction completes with an empty
\* table: every failed step then matches nothing, no remediation is launched
\* and the step's failure is returned at once. When no path is passed and no
\* candidate error-patterns.json exists, or when the file cannot be opened or
\* decoded (a directory, bytes that are not UTF-8), the constructor raises.
C16_UnloadableFileGivesEmptyTable ==
    /\ load \in {"absent_at_given_path", "garbled"} =>
          /\ pc # "init_raised"
          /\ error_patterns = <<>>
          /\ pattern = <<>>
          /\ \A i \in DOMAIN log : log[i].op \in BuildOps
          /\ (LastIsFailure("configure") \/ LastIsFailure("compile")) =>
                /\ pc = "done"
                /\ result = <<FALSE, FailureMessage(Last(log).op, error_output)>>
    /\ load \in {"absent_no_candidate", "unreadable"} =>
          /\ pc = "init_raised"
          /\ error_patterns = <<>>
          /\ log = <<>>

\* the controller was built on a pattern file that is not JSON, and a
\* configure failure has been returned as it came
C16_Witness ==
    /\ load = "garbled"
    /\ pc = "done"
    /\ log # <<>>
    /\ Last(log).op = "configure"
    /\ error_output = <<"C", "x">>


\* the call has returned the failure of a step
PhaseFailureReturned ==
    /\ pc = "done"
    /\ result[1] = FALSE
    /\ result[2] # ExhaustedMessage

\* C17: a returned step failure is labelled with the step that failed last
\* and embeds the first 300 characters of that step's stderr followed by its
\* stdout: all of it when it has 300 characters or fewer, never more than 300.
C17_FailureMessageExcerpt ==
    PhaseFailureReturned =>
       LET failed == {i \in DOMAIN log : log[i].op \in BuildOps /\ log[i].rc = "rc1"}
           f == CHOOSE i \in failed : \A j \in failed : j <= i
       IN  /\ failed # {}
           /\ result[2].label = IF log[f].op = "configure"
                                THEN "CMake configure failed: "
                                ELSE "Build failed: "
           /\ \E err \in Stderrs, out \in Stdouts :
                 /\ error_output = err \o out
                 /\ result[2].excerpt =
                       [k \in 1..(IF Len(err) + Len(out) < 300
                                  THEN Len(err) + Len(out) ELSE 300) |->
                          IF k <= Len(err) THEN err[k] ELSE out[k - Len(err)]]
           /\ Len(result[2].excerpt) <= 300
           /\ Len(error_output) <= 300 => result[2].excerpt = error_output

\* a compile failure with 301 characters of output (300 of stderr, 1 of
\* stdout) matched a pattern, its fallback did not help, and the message
\* holds the 300 characters of stderr only
C17_Witness ==
    /\ PhaseFailureReturned
    /\ Len(error_output) = 301
    /\ error_output[301] = "x"
    /\ Len(result[2].excerpt) = 300
    /\ result[2].label = "Build failed: "
    /\ Last(log).op = "fallback"


\* C18: a failed compile step is never followed directly by another compile
\* step: the build step launched next, if any, is the configure step of the
\* next attempt, it comes right after the remediation command that exited 0,
\* and while that retry is pending the controller stands at configure.
C18_RetryRestartsAtConfigure ==
    \A i \in DOMAIN log :
       (log[i].op = "compile" /\ log[i].rc = "rc1") =>
          /\ \A j \in DOMAIN log :
                (/\ j > i
                 /\ log[j].op \in BuildOps
                 /\ \A k \in (i + 1)..(j - 1) : log[k].op \notin BuildOps) =>
                   /\ log[j].op = "configure"
                   /\ log[j].attempt = log[i].attempt + 1
                   /\ log[j - 1].op = "auto_fix"
                   /\ log[j - 1].rc = "rc0"
          /\ (pc \in BuildOps /\ \A k \in (i + 1)..Len(log) : log[k].op \notin BuildOps) =>
                /\ pc = "configure"
                /\ attempt = log[i].attempt
                /\ Last(log).rc = "rc0"

\* attempt 1: configure exits 0, compile fails, the remediation command
\* exits 0; the fourth launch is the configure step of attempt 2
C18_Witness ==
    /\ Len(log) = 4
    /\ log[2].op = "compile" /\ log[2].rc = "rc1"
    /\ log[3].op = "auto_fix" /\ log[3].rc = "rc0"
    /\ log[4].op = "configure" /\ log[4].attempt = 2 /\ log[4].rc = "rc0"
    /\ pc = "compile"


\* C19: every compile launch comes directly after a configure launch of the
\* same attempt that exited 0, an attempt whose configure step failed has no
\* compile launch, and so there are never more compile launches than
\* configure launches that exited 0.
C19_CompileOnlyAfterConfigureOk ==
    /\ \A i \in DOMAIN log :
          log[i].op = "compile" =>
             /\ i > 1
             /\ log[i - 1].op = "configure"
             /\ log[i - 1].rc = "rc0"
             /\ log[i - 1].attempt = log[i].attempt
    /\ \A i, j \in DOMAIN log :
          (log[i].op = "configure" /\ log[i].rc # "rc0" /\ log[j].op = "compile")
             => log[j].attempt # log[i].attempt
    /\ pc = "compile" =>
          /\ log # <<>>
          /\ Last(log).op = "configure"
          /\ Last(log).rc = "rc0"
          /\ Last(log).attempt = attempt + 1
    /\ NumOp("compile")
          <= Cardinality({i \in DOMAIN log : log[i].op = "configure" /\ log[i].rc = "rc0"})

\* configure failed in attempt 1 and was fixed, attempts 2 and 3 configured
\* and compiled: three configure launches, two of them exited 0, two
\* compile launches
C19_Witness ==
    /\ NumOp("configure") = 3
    /\ NumOp("compile") = 2
    /\ log[1].op = "configure" /\ log[1].rc = "rc1"
    /\ log[3].op = "configure" /\ log[3].rc = "rc0"
    /\ pc = "done"


\* C20: a fallback command is launched only in an attempt whose failed step
\* matched a pattern, after every remediation action of that pattern that has
\* a command was run in that attempt and none exited 0 (there may be none);
\* no remediation command follows a fallback in the attempt, and nothing but
\* build steps is launched while no pattern has matched.
C20_FallbackOnlyAfterRemediation ==
    /\ \A i \in DOMAIN log :
          log[i].op = "fallback" =>
             LET remediation == {j \in DOMAIN log : /\ log[j].op = "auto_fix"
                                                    /\ log[j].attempt = log[i].attempt}
             IN  /\ \A j \in remediation : j < i /\ log[j].rc # "rc0"
                 /\ \E j \in 1..(i - 1) :
                       /\ log[j].attempt = log[i].attempt
                       /\ log[j].op \in BuildOps
                       /\ log[j].rc = "rc1"
                 /\ log[i].attempt = attempt + 1 =>
                       /\ pattern # <<>>
                       /\ log[i].idx \in Commanded(pattern[1], "fallback", current_platform)
                       /\ log[i].cmd = SelectCommand(pattern[1].fallback[log[i].idx],
                                                     current_platform)
                       /\ {log[j].idx : j \in remediation}
                             = Commanded(pattern[1], "auto_fix", current_platform)
    /\ (pc = "fallback" \/ (pc = "auto_fix" /\ stage = "fallback")) => pattern # <<>>
    /\ (pattern = <<>> /\ log # <<>>) => Last(log).op \in BuildOps

\* the remediation command of the matched pattern exited 1, then its first
\* fallback was launched
C20_Witness ==
    /\ pattern = <<PatAll>>
    /\ Len(log) = 3
    /\ log[2] = Event("auto_fix", 0, "rc1", "fix-generic", 2)
    /\ log[3].op = "fallback"
    /\ log[3].idx = 1


\* C21 (as claimed): once a fallback command has exited 0, no later fallback
\* of the pattern is launched in that attempt.
C21_Original ==
    \A i, j \in DOMAIN log :
       (/\ i < j
        /\ log[i].op = "fallback"
        /\ log[i].rc = "rc0"
        /\ log[j].attempt = log[i].attempt) => log[j].op # "fallback"


\* C22: an action without a command on the current platform launches
\* nothing and fixes nothing: whatever is launched for a pattern has a
\* non-empty command and belongs to an action that has one, and when no
\* remediation action of the matched pattern has a command no remediation
\* command runs and the failed attempt is the call's last one: no retry.
C22_CommandlessActionIsSkipped ==
    /\ \A i \in DOMAIN log : log[i].op \in FixOps => log[i].cmd # ""
    /\ InRecovery =>
          \A i \in DOMAIN log :
             (log[i].op \in FixOps /\ log[i].attempt = attempt + 1) =>
                log[i].idx \in Commanded(pattern[1], log[i].op, current_platform)
    /\ (/\ pattern # <<>>
        /\ log # <<>>
        /\ \E i \in DOMAIN log : /\ log[i].attempt = Last(log).attempt
                                 /\ log[i].op \in BuildOps
                                 /\ log[i].rc = "rc1"
        /\ Commanded(pattern[1], "auto_fix", current_platform) = {}) =>
          /\ \A i \in DOMAIN log :
                log[i].attempt = Last(log).attempt => log[i].op # "auto_fix"
          /\ pc \in {"auto_fix", "fallback", "done"}
          /\ attempt + 1 = Last(log).attempt
          /\ pc = "done" => result = <<FALSE, FailureMessage(phase, error_output)>>

\* the only remediation action of the matched pattern has no command: the
\* launch after the failed configure step is the pattern's fallback, and the
\* configure failure has been returned
C22_Witness ==
    /\ pattern = <<PatBare>>
    /\ pc = "done"
    /\ Len(log) = 2
    /\ log[1].op = "configure"
    /\ log[2].op = "fallback"
    /\ result[1] = FALSE


\* every shape of an action record: each of the three command fields is
\* absent, empty or set
ActionShapes ==
    LET keys == {"command", "command_windows", "command_linux"}
        text(k) == CASE k = "command" -> "generic-cmd"
                     [] k = "command_windows" -> "windows-cmd"
                     [] OTHER -> "linux-cmd"
    IN  UNION {{[k \in D |-> IF k \in E THEN "" ELSE text(k)] : E \in SUBSET D} :
                  D \in SUBSET keys}

\* what platform.system() can return: the three of the model and one more
PlatformNames == Platforms \cup {"FreeBSD"}

\* the field of an action record, "" when it is absent
Field(fix, key) == IF key \in DOMAIN fix THEN fix[key] ELSE ""

\* C23: the command of an action is its command_windows field on Windows and
\* its command_linux field on any other platform, and its generic command
\* field exactly when that field is absent or empty; the commands launched
\* for the matched pattern are the ones so selected, never the field of the
\* other platform family.
C23_PlatformCommandSelection ==
    \* the rule on every shape and platform name; it does not depend on the
    \* state, so the initial states are enough to evaluate it in
    /\ pc = "new" =>
          \A fix \in ActionShapes, plat \in PlatformNames :
             LET own == IF plat = "Windows" THEN "command_windows" ELSE "command_linux"
             IN  SelectCommand(fix, plat)
                    = IF Field(fix, own) # "" THEN Field(fix, own)
                      ELSE Field(fix, "command")
    /\ InRecovery =>
          \A i \in DOMAIN log :
             (log[i].op \in FixOps /\ log[i].attempt = attempt + 1) =>
                LET fix == pattern[1][log[i].op][log[i].idx]
                    own == IF current_platform = "Windows"
                           THEN "command_windows" ELSE "command_linux"
                    other == IF current_platform = "Windows"
                             THEN "command_linux" ELSE "command_windows"
                IN  /\ log[i].cmd = IF Field(fix, own) # ""
                                    THEN Field(fix, own) ELSE Field(fix, "command")
                    /\ log[i].cmd # Field(fix, other)

\* on Darwin the command_linux field of an action that also has a
\* command_windows field has been launched
C23_Witness ==
    /\ current_platform = "Darwin"
    /\ InRecovery
    /\ Last(log).cmd = "apt-install"
    /\ pattern[1].fallback[Last(log).idx].command_windows = "win-install"


\* C24: execute_auto_fix returns True exactly when a command it launched
\* exited 0.  For the call on the matched pattern: False leaves the
\* controller at the first fallback with no remediation command of the
\* attempt having exited 0, a remediation command that exited 0 made it
\* return True, and that holds also when the next attempt fails in the same
\* way.  For the call on the k-th fallback: its value is True exactly when the
\* k-th fallback's command was launched and exited 0.
C24_FixedIffSomeCommandExitedZero ==
    /\ returned = <<TRUE>> =>
          \E i \in DOMAIN log : log[i].op \in FixOps /\ log[i].rc = "rc0"
    /\ (log # <<>> /\ Last(log).op = "auto_fix" /\ pc # "auto_fix") =>
          returned = <<Last(log).rc = "rc0">>
    /\ (pc = "configure" /\ attempt > 0) => returned = <<TRUE>>
    /\ (pc = "fallback" /\ fb_i = 1) =>
          /\ returned = <<FALSE>>
          /\ \A i \in DOMAIN log :
                (log[i].op = "auto_fix" /\ log[i].attempt = attempt + 1)
                   => log[i].rc # "rc0"
    /\ (pc = "fallback" /\ fb_i > 1) =>
          returned = <<\E i \in DOMAIN log : /\ log[i].op = "fallback"
                                            /\ log[i].attempt = attempt + 1
                                            /\ log[i].idx = fb_i - 1
                                            /\ log[i].rc = "rc0">>

\* the remediation command exited 0 and was reported as a fix, although the
\* configure step of the next attempt then failed with the same output
C24_Witness ==
    /\ Len(log) = 3
    /\ log[1].op = "configure" /\ log[1].rc = "rc1"
    /\ log[2].op = "auto_fix" /\ log[2].rc = "rc0"
    /\ log[3].op = "configure" /\ log[3].rc = "rc1" /\ log[3].attempt = 2
    /\ returned = <<TRUE>>
    /\ error_output = <<"C">>
    /\ pc = "auto_fix"


\* a step of a call of build_with_validation
Step ==
    \/ ConfigureRaises
    \/ ConfigureOk
    \/ ConfigureFails
    \/ CompileRaises
    \/ CompileOk
    \/ CompileFails
    \/ AutoFixNotFixed
    \/ AutoFixSkip
    \/ AutoFixRun
    \/ FallbackNext
    \/ FallbackEnd

\* A call that has started keeps taking steps: the build tool's processes
\* end, a remediation command ends or is cut off after 30 seconds, and the
\* statements between them do not block.
FairSpec == Init /\ [][Next]_vars /\ WF_vars(Step)

\* C25: every call of build_with_validation comes to an end, with a result
\* or with the exception of a launch that failed, whatever the table and
\* whatever the subprocesses do.
C25_CallTerminates ==
    (pc \in {"configure", "compile", "auto_fix", "fallback"}) ~> (pc \in {"done", "raised"})

\* a call has come to its end after the longest run there is: three
\* attempts, each with a compile failure that was fixed
C25_Witness ==
    /\ pc = "done"
    /\ NumOp("configure") = max_retry_attempts
    /\ NumOp("compile") = max_retry_attempts
    /\ result = <<FALSE, ExhaustedMessage>>


\* the names given to create_basic_project
ProjectNames == {"proj"}

\* the longest path at which a project is made
MaxDepth == 3

\* create_basic_project(project_name, ...): Path(project_name).mkdir and the
\* mkdir of its src and include, all with exist_ok=True; the relative name
\* is resolved against the working directory that the last call of
\* build_with_validation left.  Returns True.  (What it writes below them
\* are files: no operation of the controller reads them, and os.chdir
\* enters directories only.)  The note of a failed os.chdir is about the
\* directories as they were, so it is dropped.
create_basic_project ==
    /\ pc \in {"idle", "done", "raised"}
    /\ \E project_name \in ProjectNames :
          LET project_dir == Append(cwd, project_name)
          IN  /\ Len(project_dir) <= MaxDepth
              /\ dirs' = dirs \cup {project_dir,
                                    Append(project_dir, "src"),
                                    Append(project_dir, "include")}
    /\ chdir_error' = <<>>
    /\ UNCHANGED <<cwd, returned, current_platform, error_patterns, load, pc,
                   attempt, phase, error_output, pattern, stage, fixes, fix_i,
                   fb_i, result, log>>

NextRuns ==
    \/ Next
    \/ create_basic_project

\* the controller used as main() uses it, any number of times: projects are
\* made and built, one after the other
SpecRuns == Init /\ [][NextRuns]_vars

\* what a call returns, told from what it launched and from the output of
\* the step that failed last
ResultOf(launched, out) ==
    LET last == launched[Len(launched)]
        failed == {i \in DOMAIN launched :
                      launched[i].op \in BuildOps /\ launched[i].rc = "rc1"}
        f == CHOOSE i \in failed : \A j \in failed : j <= i
    IN  IF last.op = "compile" /\ last.rc = "rc0"
        THEN <<TRUE, SuccessMessage>>
        ELSE IF last.op = "auto_fix" /\ last.rc = "rc0"
        THEN <<FALSE, ExhaustedMessage>>
        ELSE <<FALSE, Message(IF launched[f].op = "configure"
                              THEN "CMake configure failed: " ELSE "Build failed: ",
                              0,
                              SubSeq(out, 1, IF Len(out) < 300 THEN Len(out) ELSE 300))>>

\* a call that got past os.chdir starts with nothing launched at attempt 1
\* and with no result; its result is told by what it launched itself and by
\* the outputs it saw, and it gives up for lack of attempts only after 3
\* configure launches of its own
CallStartsFresh ==
    /\ (pc = "configure" /\ log = <<>>) =>
          /\ attempt = 0
          /\ result = <<>>
          /\ returned = <<>>
          /\ pattern = <<>>
          /\ error_output = <<>>
    /\ log # <<>> => log[1].op = "configure" /\ log[1].attempt = 1
    /\ \A i \in DOMAIN log : log[i].attempt \in 1..max_retry_attempts
    /\ pc = "done" => result = ResultOf(log, error_output)
    /\ (pc = "done" /\ result = <<FALSE, ExhaustedMessage>>) =>
          NumOp("configure") = max_retry_attempts

\* C26 (as claimed): a call does not depend on the calls before it.  Whether
\* it is the first call or follows one that ended in any way, it starts
\* again at attempt 1 with the full budget and its result is told by what it
\* observed itself: in particular it is stopped by os.chdir only for a
\* project_dir that the first call of the process could not enter either.
C26_Original ==
    /\ CallStartsFresh
    /\ chdir_error # <<>> => ~ChdirOk(chdir_error[1], StartDir)


\* C27: once the controller is constructed, no step of any call changes the
\* pattern table: it holds the records it was loaded with, in their order,
\* through calls, matches, remediation and fallback commands.  (The budget
\* max_retry_attempts is assigned in __init__ only; it is a constant here.)
C27_TableIsReadOnly ==
    [][pc # "new" => error_patterns' = error_patterns]_vars

\* a call on a two-record table has matched the second record, run
\* its remediation and fallbacks and returned; the table is as loaded
C27_Witness ==
    /\ error_patterns = <<PatWindows, PatAll>>
    /\ pattern = <<PatAll>>
    /\ pc = "done"
    /\ NumOp("auto_fix") = 1
    /\ NumOp("fallback") = 2


\* C28: a result says success only when the two last launches of the call are
\* a configure step and a compile step of one attempt that both exited 0; a
\* result that says failure has a build step with a non-zero exit in the
\* call's last attempt; a remediation or fallback command is never what a
\* success result comes right after.
C28_SuccessMeansBuilt ==
    /\ pc # "done" => result = <<>>
    /\ pc = "done" =>
          /\ log # <<>>
          /\ result[1] \in BOOLEAN
          /\ result[1] =>
                /\ Len(log) >= 2
                /\ Last(log).op = "compile" /\ Last(log).rc = "rc0"
                /\ log[Len(log) - 1].op = "configure"
                /\ log[Len(log) - 1].rc = "rc0"
                /\ log[Len(log) - 1].attempt = Last(log).attempt
                /\ attempt + 1 = Last(log).attempt
          /\ ~result[1] =>
                \E i \in DOMAIN log :
                   /\ log[i].op \in BuildOps
                   /\ log[i].rc = "rc1"
                   /\ log[i].attempt = Last(log).attempt
          /\ Last(log).op \in FixOps => ~result[1]

\* success in attempt 2: attempt 1's configure failure was fixed, then
\* configure and compile both exited 0
C28_Witness ==
    /\ pc = "done"
    /\ result = <<TRUE, SuccessMessage>>
    /\ Len(log) = 4
    /\ log[1].rc = "rc1"
    /\ log[2].op = "auto_fix" /\ log[2].rc = "rc0"
    /\ log[3].op = "configure" /\ log[4].op = "compile"


\* the remediation commands that exited 0: each is one True returned by
\* execute_auto_fix(pattern)
NumFixed ==
    Cardinality({i \in DOMAIN log : log[i].op = "auto_fix" /\ log[i].rc = "rc0"})

\* C29: attempts after the first are paid for by fixes: there are never more
\* configure launches than 1 plus the number of remediation commands that
\* exited 0, the attempt counter is that number (less one once the third
\* fix has used up the budget), and a configure launch other than the
\* first comes directly after such a command; after a recovery that did not
\* report fixed nothing is launched for a new attempt.
C29_AttemptsNeedFixes ==
    /\ NumOp("configure") <= 1 + NumFixed
    /\ pc \in {"configure", "compile", "auto_fix", "fallback"} => attempt = NumFixed
    /\ pc = "done" =>
          attempt = IF result = <<FALSE, ExhaustedMessage>>
                    THEN NumFixed - 1 ELSE NumFixed
    /\ \A i \in DOMAIN log :
          (log[i].op = "configure" /\ i > 1) =>
             /\ log[i - 1].op = "auto_fix"
             /\ log[i - 1].rc = "rc0"
             /\ log[i].attempt = log[i - 1].attempt + 1
    /\ \A i \in DOMAIN log :
          (log[i].op \in FixOps /\ log[i].rc # "rc0" /\ i < Len(log)) =>
             log[i + 1].op \in FixOps /\ log[i + 1].attempt = log[i].attempt

\* two fixes, three configure launches; the third attempt's failure was not
\* fixed and the call has returned it
C29_Witness ==
    /\ NumOp("configure") = 3
    /\ NumFixed = 2
    /\ pc = "done"
    /\ result # <<FALSE, ExhaustedMessage>>
    /\ result[1] = FALSE
    /\ Last(log).op \in FixOps


\* C30: a record without a platform key passes the platform test on every
\* platform, and a record without a regex key is found in every output; so
\* when a step fails with a record lacking both at position i of the table,
\* there is a match and it is a record at position i or before: no record
\* after i is ever the match.
C30_MissingFieldsMatchEverything ==
    \* the two defaults by themselves do not depend on the state: the initial
    \* states are enough to evaluate them in
    /\ pc = "new" =>
          /\ \A plat \in PlatformNames :
                Applicable([regex |-> <<"q">>], plat)
          /\ \A plat \in PlatformNames, err \in Stderrs, out \in Stdouts :
                Matches([platform |-> <<"all">>], plat, err \o out)
    /\ ((LastIsFailure("configure") \/ LastIsFailure("compile")) /\ MatchReturns(error_output)) =>
          \A i \in DOMAIN error_patterns :
             (error_patterns[i] # NotARecord
                /\ "regex" \notin DOMAIN error_patterns[i]
                /\ "platform" \notin DOMAIN error_patterns[i]) =>
                /\ pattern # <<>>
                /\ \E k \in 1..i : pattern = <<error_patterns[k]>>
                /\ \A k \in DOMAIN error_patterns :
                      (k > i /\ \A j \in 1..i : error_patterns[j] # error_patterns[k])
                         => pattern # <<error_patterns[k]>>

\* the record without regex and platform comes first and is the match for
\* an output in which the regex of the record after it, applicable too,
\* is found
C30_Witness ==
    /\ error_patterns = <<PatBare, PatAll>>
    /\ LastIsFailure("compile")
    /\ error_output = <<"C", "x">>
    /\ pattern = <<PatBare>>
    /\ current_platform = "Darwin"

====
